---- MODULE Spec2Model ----
(***************************************************************************)
(* Model of backend/main.go: the shared car position kept in Redis under   *)
(* the key "carPosition", the registry of WebSocket clients (wsClients,    *)
(* guarded by wsMutex), and the handlers getPosition, updatePosition,      *)
(* wsHandler, handleWSRead, broadcastPosition and sendCurrentPosition.     *)
(* Every goroutine is a process with a program counter; one action is one  *)
(* step between two points where another goroutine can interleave (a       *)
(* Redis command, a mutex operation, a WebSocket write).                   *)
(***************************************************************************)
EXTENDS Integers, FiniteSets, Sequences, TLC

\* ---------------------------------------------------------------- bounds
NUpd == 2          \* number of updatePosition requests (POST /position)
NConn == 2         \* number of /ws upgrade requests

Upds == 1..NUpd
Conns == 1..NConn

\* req.Delta values a client posts: a backward move, the no-op and a
\* forward move.
Deltas == {-5, 0, 10}

\* ------------------------------------------------------------- constants
None == <<>>
Some(v) == <<v>>

Free == <<"free", 0>>
UpdHolder(u) == <<"updatePosition", u>>
WsHolder(c) == <<"wsHandler", c>>
RdHolder(c) == <<"handleWSRead", c>>

NoConn == 0

VARIABLES
    carPosition,   \* integer stored under the Redis key "carPosition"
    keyExists,     \* FALSE while the key is absent (Get answers redis.Nil)
    wsClients,     \* the set of keys of the map wsClients
    wsMutex,       \* the goroutine holding wsMutex, or Free
    upc,           \* updatePosition: program counter of request u
    delta,         \* updatePosition: req.Delta
    newPos,        \* updatePosition: the local newPos
    incrResult,    \* history: the value IncrBy answered to request u
    setFailed,     \* history: the clamp's Set of request u returned an error
    alone,         \* history: no other request touched the store meanwhile
    before,        \* history: the stored value when request u did its IncrBy
    resp,          \* updatePosition: what was written to the HTTP response
    todo,          \* broadcastPosition: map keys the range has yet to produce
    passStart,     \* history: wsClients when the pass of request u locked
    cur,           \* broadcastPosition: clientConn of the write in progress
    sentTo,        \* history: successful writes of this pass, per connection
    failedIn,      \* history: connections whose write failed in this pass
    wpc,           \* wsHandler: program counter of upgrade request c
    spc,           \* sendCurrentPosition(c): program counter
    snapVal,       \* sendCurrentPosition(c): the local position
    rpc,           \* handleWSRead(c): program counter
    closed,        \* conn.Close() has been called on c
    peerGone,      \* the peer of c closed or broke the connection
    lastMsg,       \* the last PositionResponse the peer of c was sent
    snapGot,       \* history: the initial snapshots the peer of c was sent
    removed,       \* history: connections deleted from wsClients so far
    lastEff,       \* history: clamped result of the latest IncrBy
    got,           \* getPosition: the last response body (position or error)
    gotExpect      \* history: lastEff when that getPosition read the store

vars == <<carPosition, keyExists, wsClients, wsMutex, upc, delta, newPos,
          incrResult, setFailed, alone, before, resp, todo, passStart, cur,
          sentTo, failedIn, wpc, spc, snapVal, rpc, closed, peerGone, lastMsg,
          snapGot, removed, lastEff, got, gotExpect>>

storeVars == <<carPosition, keyExists>>
updVars == <<upc, delta, newPos, incrResult, setFailed, alone, before, resp>>
passVars == <<todo, passStart, cur, sentTo, failedIn>>
connVars == <<wpc, spc, snapVal, rpc, closed, peerGone>>
getVars == <<got, gotExpect>>
msgVars == <<lastMsg, snapGot>>

\* ------------------------------------------------------------ the store
\* rdb.Get(...).Int(): redis.Nil is mapped to 0 by both callers.
Get(value, exists) == IF exists THEN value ELSE 0

\* (mutant) SET where INCRBY was meant: the delta overwrites the value.
IncrBySet(value, exists, d) == d

\* rdb.IncrBy: INCRBY adds to the stored value, an absent key counting as 0.
IncrBy(value, exists, d) == Get(value, exists) + d

\* The clamp of updatePosition: "if newPos < 0 { newPos = 0 ... }".
Clamp(p) == IF p < 0 THEN 0 ELSE p

InFlight(u) == upc[u] \in {"clamp", "broadcast", "locked"}

Init ==
    /\ carPosition = 0
    /\ keyExists = FALSE
    /\ wsClients = {}
    /\ wsMutex = Free
    /\ upc = [u \in Upds |-> "start"]
    /\ delta = [u \in Upds |-> 0]
    /\ newPos = [u \in Upds |-> 0]
    /\ incrResult = [u \in Upds |-> None]
    /\ setFailed = [u \in Upds |-> FALSE]
    /\ alone = [u \in Upds |-> TRUE]
    /\ before = [u \in Upds |-> 0]
    /\ resp = [u \in Upds |-> None]
    /\ todo = [u \in Upds |-> {}]
    /\ passStart = [u \in Upds |-> {}]
    /\ cur = [u \in Upds |-> NoConn]
    /\ sentTo = [u \in Upds |-> [c \in Conns |-> 0]]
    /\ failedIn = [u \in Upds |-> {}]
    /\ wpc = [c \in Conns |-> "start"]
    /\ spc = [c \in Conns |-> "none"]
    /\ snapVal = [c \in Conns |-> 0]
    /\ rpc = [c \in Conns |-> "none"]
    /\ closed = [c \in Conns |-> FALSE]
    /\ peerGone = [c \in Conns |-> FALSE]
    /\ lastMsg = [c \in Conns |-> None]
    /\ snapGot = [c \in Conns |-> <<>>]
    /\ removed = {}
    /\ lastEff = 0
    /\ got = None
    /\ gotExpect = 0

\* ------------------------------------------------------ HTTP responses
Position(p) == <<"position", p>>
Error(code) == <<"error", code>>

\* ------------------------------------------------------------- wsMutex
\* (mutant) no mutual exclusion: Lock returns at once.
CanLockAlways(m) == TRUE

\* sync.Mutex.Lock returns only while no goroutine holds the mutex.
CanLock(m) == m = Free

\* ----------------------------------------------------- WebSocket writes
\* conn.WriteMessage: fails on a connection the server has closed, and may
\* fail or still be buffered by the transport once the peer is gone.
WriteOutcomes(c) ==
    IF closed[c] THEN {FALSE}
    ELSE IF peerGone[c] THEN {TRUE, FALSE}
    ELSE {TRUE}

Writers(c) ==
    {UpdHolder(u) : u \in {w \in Upds : cur[w] = c}}
        \cup (IF spc[c] = "writing" THEN {WsHolder(c)} ELSE {})

\* (mutant) the failed connection is closed but stays in the map.
PruneNothing(clients, c) == clients

\* delete(wsClients, clientConn)
Prune(clients, c) == clients \ {c}

\* (mutant) the loop gives up at the first write that fails.
RemainingAbort(left, c, clients) == IF c \in clients THEN left \ {c} ELSE {}

\* What "for clientConn := range wsClients" has yet to produce after the
\* iteration on c: an entry deleted from the map is not produced later.
Remaining(left, c, clients) == (left \ {c}) \cap clients

\* ------------------------------------------------------ updatePosition
\* json Decode fails: 400, nothing else happens.
UpdMalformed(u) ==
    /\ upc[u] = "start"
    /\ upc' = [upc EXCEPT ![u] = "done"]
    /\ resp' = [resp EXCEPT ![u] = Error(400)]
    /\ UNCHANGED <<storeVars, wsClients, wsMutex, delta, newPos, incrResult,
                   setFailed, alone, before, passVars, connVars, msgVars,
                   removed, lastEff, getVars>>

\* Decode, then rdb.IncrBy succeeds and answers the new stored value.
UpdIncrBy(u) ==
    /\ upc[u] = "start"
    /\ \E d \in Deltas :
        LET r == IncrBy(carPosition, keyExists, d) IN
        /\ delta' = [delta EXCEPT ![u] = d]
        /\ before' = [before EXCEPT ![u] = Get(carPosition, keyExists)]
        /\ carPosition' = r
        /\ keyExists' = TRUE
        /\ newPos' = [newPos EXCEPT ![u] = r]
        /\ incrResult' = [incrResult EXCEPT ![u] = Some(r)]
        /\ lastEff' = Clamp(r)
        /\ upc' = [upc EXCEPT ![u] = IF r < 0 THEN "clamp" ELSE "broadcast"]
    /\ alone' = [w \in Upds |->
                   IF w = u THEN \A x \in Upds \ {u} : ~InFlight(x)
                   ELSE IF InFlight(w) THEN FALSE ELSE alone[w]]
    /\ UNCHANGED <<wsClients, wsMutex, setFailed, resp, passVars, connVars,
                   msgVars, removed, getVars>>

\* Decode, then rdb.IncrBy returns an error: 500, the store is untouched.
UpdIncrByFail(u) ==
    /\ upc[u] = "start"
    /\ \E d \in Deltas : delta' = [delta EXCEPT ![u] = d]
    /\ upc' = [upc EXCEPT ![u] = "done"]
    /\ resp' = [resp EXCEPT ![u] = Error(500)]
    /\ UNCHANGED <<storeVars, wsClients, wsMutex, newPos, incrResult,
                   setFailed, alone, before, passVars, connVars, msgVars,
                   removed, lastEff, getVars>>

\* newPos < 0: "newPos = 0; _ = rdb.Set(ctx, "carPosition", 0, 0).Err()".
\* The error of Set is discarded, so the request goes on either way.
UpdClamp(u) ==
    /\ upc[u] = "clamp"
    /\ newPos' = [newPos EXCEPT ![u] = Clamp(newPos[u])]
    /\ \/ /\ carPosition' = 0
          /\ keyExists' = TRUE
          /\ UNCHANGED setFailed
       \/ /\ setFailed' = [setFailed EXCEPT ![u] = TRUE]
          /\ UNCHANGED storeVars
    /\ upc' = [upc EXCEPT ![u] = "broadcast"]
    /\ UNCHANGED <<wsClients, wsMutex, delta, incrResult, alone, before, resp,
                   passVars, connVars, msgVars, removed, lastEff, getVars>>

\* --------------------------------------------------- broadcastPosition
\* wsMutex.Lock(); the range over wsClients starts.
BcastLock(u) ==
    /\ upc[u] = "broadcast"
    /\ CanLock(wsMutex)
    /\ wsMutex' = UpdHolder(u)
    /\ todo' = [todo EXCEPT ![u] = wsClients]
    /\ passStart' = [passStart EXCEPT ![u] = wsClients]
    /\ sentTo' = [sentTo EXCEPT ![u] = [c \in Conns |-> 0]]
    /\ failedIn' = [failedIn EXCEPT ![u] = {}]
    /\ upc' = [upc EXCEPT ![u] = "locked"]
    /\ UNCHANGED <<storeVars, wsClients, delta, newPos, incrResult, setFailed,
                   alone, before, resp, cur, connVars, msgVars, removed,
                   lastEff, getVars>>

\* The range produces clientConn = c and WriteMessage is entered.
BcastWriteBegin(u, c) ==
    /\ upc[u] = "locked"
    /\ cur[u] = NoConn
    /\ c \in todo[u]
    /\ cur' = [cur EXCEPT ![u] = c]
    /\ UNCHANGED <<storeVars, wsClients, wsMutex, updVars, todo, passStart,
                   sentTo, failedIn, wpc, spc, snapVal, rpc, closed, peerGone,
                   msgVars, removed, lastEff, getVars>>

\* WriteMessage returns; on an error the connection is closed and deleted.
BcastWriteEnd(u) ==
    /\ upc[u] = "locked"
    /\ cur[u] # NoConn
    /\ LET c == cur[u] IN
       \E ok \in WriteOutcomes(c) :
          /\ IF ok
             THEN /\ lastMsg' = [lastMsg EXCEPT ![c] = Some(newPos[u])]
                  /\ sentTo' = [sentTo EXCEPT ![u][c] = @ + 1]
                  /\ UNCHANGED <<wsClients, closed, removed, failedIn>>
             ELSE /\ closed' = [closed EXCEPT ![c] = TRUE]
                  /\ wsClients' = Prune(wsClients, c)
                  /\ removed' = removed \cup (wsClients \ wsClients')
                  /\ failedIn' = [failedIn EXCEPT ![u] = @ \cup {c}]
                  /\ UNCHANGED <<lastMsg, sentTo>>
          /\ todo' = [todo EXCEPT ![u] = Remaining(@, c, wsClients')]
    /\ cur' = [cur EXCEPT ![u] = NoConn]
    /\ UNCHANGED <<storeVars, snapGot, wsMutex, updVars, passStart, wpc, spc,
                   snapVal, rpc, peerGone, lastEff, getVars>>

\* (mutant) broadcastPosition returns without unlocking wsMutex.
BcastReturnLocked(u) ==
    /\ upc[u] = "locked"
    /\ cur[u] = NoConn
    /\ todo[u] = {}
    /\ resp' = [resp EXCEPT ![u] = Position(newPos[u])]
    /\ upc' = [upc EXCEPT ![u] = "done"]
    /\ UNCHANGED <<storeVars, wsClients, wsMutex, delta, newPos, incrResult,
                   setFailed, alone, before, passVars, connVars, msgVars,
                   removed, lastEff, getVars>>

\* The range is exhausted: the deferred wsMutex.Unlock() runs, and
\* updatePosition encodes PositionResponse{Position: newPos}.
BcastUnlock(u) ==
    /\ upc[u] = "locked"
    /\ cur[u] = NoConn
    /\ todo[u] = {}
    /\ wsMutex' = Free
    /\ resp' = [resp EXCEPT ![u] = Position(newPos[u])]
    /\ upc' = [upc EXCEPT ![u] = "done"]
    /\ UNCHANGED <<storeVars, wsClients, delta, newPos, incrResult, setFailed,
                   alone, before, passVars, connVars, msgVars, removed,
                   lastEff, getVars>>

\* ----------------------------------------------------------- wsHandler
WsUpgrade(c) ==
    /\ wpc[c] = "start"
    /\ wpc' = [wpc EXCEPT ![c] = "upgraded"]
    /\ UNCHANGED <<storeVars, wsClients, wsMutex, updVars, passVars, spc,
                   snapVal, rpc, closed, peerGone, msgVars, removed,
                   lastEff, getVars>>

\* upgrader.Upgrade fails: 500 to this request, nothing is registered.
WsUpgradeFail(c) ==
    /\ wpc[c] = "start"
    /\ wpc' = [wpc EXCEPT ![c] = "failed"]
    /\ UNCHANGED <<storeVars, wsClients, wsMutex, updVars, passVars, spc,
                   snapVal, rpc, closed, peerGone, msgVars, removed,
                   lastEff, getVars>>

WsLock(c) ==
    /\ wpc[c] = "upgraded"
    /\ CanLock(wsMutex)
    /\ wsMutex' = WsHolder(c)
    /\ wpc' = [wpc EXCEPT ![c] = "locked"]
    /\ UNCHANGED <<storeVars, wsClients, updVars, passVars, spc, snapVal, rpc,
                   closed, peerGone, msgVars, removed, lastEff,
                   getVars>>

\* wsClients[conn] = true; wsMutex.Unlock(); go sendCurrentPosition(conn);
\* go handleWSRead(conn).
WsAdd(c) ==
    /\ wpc[c] = "locked"
    /\ wsClients' = wsClients \cup {c}
    /\ wsMutex' = Free
    /\ wpc' = [wpc EXCEPT ![c] = "done"]
    /\ spc' = [spc EXCEPT ![c] = "get"]
    /\ rpc' = [rpc EXCEPT ![c] = "reading"]
    /\ UNCHANGED <<storeVars, updVars, passVars, snapVal, closed, peerGone,
                   msgVars, removed, lastEff, getVars>>

\* The client closes its socket or the network drops it. The server can
\* notice it no earlier than its first read or write of the connection,
\* which both follow the registration.
PeerClose(c) ==
    /\ wpc[c] = "done"
    /\ ~peerGone[c]
    /\ peerGone' = [peerGone EXCEPT ![c] = TRUE]
    /\ UNCHANGED <<storeVars, wsClients, wsMutex, updVars, passVars, wpc, spc,
                   snapVal, rpc, closed, msgVars, removed, lastEff,
                   getVars>>

\* ------------------------------------------------- sendCurrentPosition
SnapGet(c) ==
    /\ spc[c] = "get"
    /\ snapVal' = [snapVal EXCEPT ![c] = Get(carPosition, keyExists)]
    /\ spc' = [spc EXCEPT ![c] = "write"]
    /\ UNCHANGED <<storeVars, wsClients, wsMutex, updVars, passVars, wpc, rpc,
                   closed, peerGone, msgVars, removed, lastEff,
                   getVars>>

\* rdb.Get returns an error other than redis.Nil: log and return.
SnapGetFail(c) ==
    /\ spc[c] = "get"
    /\ spc' = [spc EXCEPT ![c] = "getFailed"]
    /\ UNCHANGED <<storeVars, wsClients, wsMutex, updVars, passVars, wpc,
                   snapVal, rpc, closed, peerGone, msgVars, removed,
                   lastEff, getVars>>

SnapWriteBegin(c) ==
    /\ spc[c] = "write"
    /\ spc' = [spc EXCEPT ![c] = "writing"]
    /\ UNCHANGED <<storeVars, wsClients, wsMutex, updVars, passVars, wpc,
                   snapVal, rpc, closed, peerGone, msgVars, removed, lastEff,
                   getVars>>

\* (mutant) the snapshot is fanned out to every registered client.
SnapTargetsAll(c) == wsClients \cup {c}

\* conn.WriteMessage(websocket.TextMessage, msg): the connections to which
\* sendCurrentPosition(conn) writes.
SnapTargets(c) == {c}

\* WriteMessage returns; an error is only logged.
SnapWriteEnd(c) ==
    /\ spc[c] = "writing"
    /\ \E ok \in WriteOutcomes(c) :
          IF ok
          THEN /\ lastMsg' = [t \in Conns |->
                     IF t \in SnapTargets(c) THEN Some(snapVal[c])
                     ELSE lastMsg[t]]
               /\ snapGot' = [t \in Conns |->
                     IF t \in SnapTargets(c)
                     THEN Append(snapGot[t], snapVal[c])
                     ELSE snapGot[t]]
               /\ spc' = [spc EXCEPT ![c] = "sent"]
          ELSE /\ spc' = [spc EXCEPT ![c] = "writeFailed"]
               /\ UNCHANGED msgVars
    /\ UNCHANGED <<storeVars, wsClients, wsMutex, updVars, passVars, wpc,
                   snapVal, rpc, closed, peerGone, removed, lastEff,
                   getVars>>

\* -------------------------------------------------------- handleWSRead
\* conn.NextReader() returns an error: the peer is gone or the connection
\* was closed by broadcastPosition. The loop breaks and the defer runs.
ReadError(c) ==
    /\ rpc[c] = "reading"
    /\ peerGone[c] \/ closed[c]
    /\ rpc' = [rpc EXCEPT ![c] = "cleanup"]
    /\ UNCHANGED <<storeVars, wsClients, wsMutex, updVars, passVars, wpc, spc,
                   snapVal, closed, peerGone, msgVars, removed,
                   lastEff, getVars>>

RdLock(c) ==
    /\ rpc[c] = "cleanup"
    /\ CanLock(wsMutex)
    /\ wsMutex' = RdHolder(c)
    /\ rpc' = [rpc EXCEPT ![c] = "locked"]
    /\ UNCHANGED <<storeVars, wsClients, updVars, passVars, wpc, spc, snapVal,
                   closed, peerGone, msgVars, removed, lastEff,
                   getVars>>

\* delete(wsClients, conn); wsMutex.Unlock()
RdDelete(c) ==
    /\ rpc[c] = "locked"
    /\ wsClients' = Prune(wsClients, c)
    /\ removed' = removed \cup {c}
    /\ wsMutex' = Free
    /\ rpc' = [rpc EXCEPT ![c] = "close"]
    /\ UNCHANGED <<storeVars, updVars, passVars, wpc, spc, snapVal, closed,
                   peerGone, msgVars, lastEff, getVars>>

\* conn.Close()
RdClose(c) ==
    /\ rpc[c] = "close"
    /\ closed' = [closed EXCEPT ![c] = TRUE]
    /\ rpc' = [rpc EXCEPT ![c] = "done"]
    /\ UNCHANGED <<storeVars, wsClients, wsMutex, updVars, passVars, wpc, spc,
                   snapVal, peerGone, msgVars, removed, lastEff,
                   getVars>>

\* --------------------------------------------------------- getPosition
GetPosition ==
    /\ got' = Position(Get(carPosition, keyExists))
    /\ gotExpect' = lastEff
    /\ UNCHANGED <<storeVars, wsClients, wsMutex, updVars, passVars, connVars,
                   msgVars, removed, lastEff>>

\* rdb.Get returns an error other than redis.Nil: 500.
GetPositionFail ==
    /\ got' = Error(500)
    /\ gotExpect' = lastEff
    /\ UNCHANGED <<storeVars, wsClients, wsMutex, updVars, passVars, connVars,
                   msgVars, removed, lastEff>>

\* ------------------------------------------------------ specifications
\* The whole server: every handler and goroutine. The specifications that
\* follow restrict it to the goroutines a group of properties depends on,
\* which keeps the state graph small enough to enumerate.
Next ==
    \/ \E u \in Upds : UpdMalformed(u)
    \/ \E u \in Upds : UpdIncrBy(u)
    \/ \E u \in Upds : UpdIncrByFail(u)
    \/ \E u \in Upds : UpdClamp(u)
    \/ \E u \in Upds : BcastLock(u)
    \/ \E u \in Upds, c \in Conns : BcastWriteBegin(u, c)
    \/ \E u \in Upds : BcastWriteEnd(u)
    \/ \E u \in Upds : BcastUnlock(u)
    \/ \E c \in Conns : WsUpgrade(c)
    \/ \E c \in Conns : WsUpgradeFail(c)
    \/ \E c \in Conns : WsLock(c)
    \/ \E c \in Conns : WsAdd(c)
    \/ \E c \in Conns : PeerClose(c)
    \/ \E c \in Conns : SnapGet(c)
    \/ \E c \in Conns : SnapGetFail(c)
    \/ \E c \in Conns : SnapWriteBegin(c)
    \/ \E c \in Conns : SnapWriteEnd(c)
    \/ \E c \in Conns : ReadError(c)
    \/ \E c \in Conns : RdLock(c)
    \/ \E c \in Conns : RdDelete(c)
    \/ \E c \in Conns : RdClose(c)
    \/ GetPosition
    \/ GetPositionFail

Spec == Init /\ [][Next]_vars

\* The store: the POST and GET handlers of /position with no WebSocket
\* client connecting. No step of a connection reads or writes the store
\* except the Get of sendCurrentPosition, which changes nothing.
NextStore ==
    \/ \E u \in Upds : UpdMalformed(u)
    \/ \E u \in Upds : UpdIncrBy(u)
    \/ \E u \in Upds : UpdIncrByFail(u)
    \/ \E u \in Upds : UpdClamp(u)
    \/ \E u \in Upds : BcastLock(u)
    \/ \E u \in Upds : BcastUnlock(u)
    \/ GetPosition
    \/ GetPositionFail

SpecStore == Init /\ [][NextStore]_vars

\* The registry: updates broadcasting to clients that connect and go away.
\* sendCurrentPosition touches neither wsClients nor wsMutex, and closes
\* nothing; its goroutine is left unscheduled here.
NextRegistry ==
    \/ \E u \in Upds : UpdMalformed(u)
    \/ \E u \in Upds : UpdIncrBy(u)
    \/ \E u \in Upds : UpdIncrByFail(u)
    \/ \E u \in Upds : UpdClamp(u)
    \/ \E u \in Upds : BcastLock(u)
    \/ \E u \in Upds, c \in Conns : BcastWriteBegin(u, c)
    \/ \E u \in Upds : BcastWriteEnd(u)
    \/ \E u \in Upds : BcastUnlock(u)
    \/ \E c \in Conns : WsUpgrade(c)
    \/ \E c \in Conns : WsUpgradeFail(c)
    \/ \E c \in Conns : WsLock(c)
    \/ \E c \in Conns : WsAdd(c)
    \/ \E c \in Conns : PeerClose(c)
    \/ \E c \in Conns : ReadError(c)
    \/ \E c \in Conns : RdLock(c)
    \/ \E c \in Conns : RdDelete(c)
    \/ \E c \in Conns : RdClose(c)

SpecRegistry == Init /\ [][NextRegistry]_vars

\* The goroutines of the registry under a fair scheduler. A goroutine that
\* can take its next step (a Redis command or a write that returns, a
\* mutex that is free) eventually takes it. Nothing obliges a client to
\* connect, to post or to go away.
ReaderStep(c) == ReadError(c) \/ RdLock(c) \/ RdDelete(c) \/ RdClose(c)
HandlerStep(c) == WsLock(c) \/ WsAdd(c)
UpdateStep(u) ==
    \/ UpdClamp(u)
    \/ BcastLock(u)
    \/ \E c \in Conns : BcastWriteBegin(u, c)
    \/ BcastWriteEnd(u)
    \/ BcastUnlock(u)

FairRegistry ==
    /\ \A c \in Conns : WF_vars(ReaderStep(c))
    /\ \A c \in Conns : WF_vars(HandlerStep(c))
    /\ \A u \in Upds : WF_vars(UpdateStep(u))

SpecRegistryFair == SpecRegistry /\ FairRegistry

\* The initial snapshot: clients connect, are sent the current position by
\* sendCurrentPosition, and go away, while one POST /position is served.
OnePost == {CHOOSE u \in Upds : TRUE}

NextSnapshot ==
    \/ \E u \in OnePost : UpdIncrBy(u)
    \/ \E u \in OnePost : UpdClamp(u)
    \/ \E u \in OnePost : BcastLock(u)
    \/ \E u \in OnePost, c \in Conns : BcastWriteBegin(u, c)
    \/ \E u \in OnePost : BcastWriteEnd(u)
    \/ \E u \in OnePost : BcastUnlock(u)
    \/ \E c \in Conns : WsUpgrade(c)
    \/ \E c \in Conns : WsLock(c)
    \/ \E c \in Conns : WsAdd(c)
    \/ \E c \in Conns : PeerClose(c)
    \/ \E c \in Conns : SnapGet(c)
    \/ \E c \in Conns : SnapGetFail(c)
    \/ \E c \in Conns : SnapWriteBegin(c)
    \/ \E c \in Conns : SnapWriteEnd(c)
    \/ \E c \in Conns : ReadError(c)
    \/ \E c \in Conns : RdLock(c)
    \/ \E c \in Conns : RdDelete(c)
    \/ \E c \in Conns : RdClose(c)

SpecSnapshot == Init /\ [][NextSnapshot]_vars

\* "go sendCurrentPosition(conn)": the goroutine is eventually scheduled,
\* and its Get and its WriteMessage return.
SnapshotStep(c) ==
    SnapGet(c) \/ SnapGetFail(c) \/ SnapWriteBegin(c) \/ SnapWriteEnd(c)

FairSnapshot == \A c \in Conns : WF_vars(SnapshotStep(c))

SpecSnapshotFair == SpecSnapshot /\ FairSnapshot /\ FairRegistry

\* ------------------------------------------------------------- helpers
Stored == Get(carPosition, keyExists)
AllDone == \A u \in Upds : upc[u] = "done"
\* The IncrBy of request u succeeded.
Applied(u) == incrResult[u] # None
Observed(u) == incrResult[u][1]
\* The clamping Set of request u was issued and succeeded.
ClampLanded(u) ==
    /\ Applied(u)
    /\ Observed(u) < 0
    /\ upc[u] \notin {"start", "clamp"}
    /\ ~setFailed[u]
Returned(u) == upc[u] = "done" /\ resp[u] # None /\ resp[u][1] = "position"
\* The range of the pass of request u is exhausted.
PassOver(u) ==
    \/ upc[u] = "locked" /\ cur[u] = NoConn /\ todo[u] = {}
    \/ Returned(u)

RECURSIVE SumDeltas(_)
SumDeltas(S) ==
    IF S = {} THEN 0
    ELSE LET u == CHOOSE x \in S : TRUE IN delta[u] + SumDeltas(S \ {u})

\* =============================================================== claims

\* C1: when all updatePosition calls have completed and none of them saw a
\* negative IncrBy result (so no clamp ran), the stored position is the sum
\* of the deltas of the calls whose IncrBy succeeded, whatever the
\* interleaving: no delta is lost or overwritten.
C1_DeltasAccumulate ==
    (AllDone /\ \A u \in Upds : Applied(u) => Observed(u) >= 0)
        => Stored = SumDeltas({u \in Upds : Applied(u)})

\* Two overlapping calls, one moving forward and one backward, no clamp.
C1_Witness ==
    /\ AllDone
    /\ \A u \in Upds : Applied(u) /\ Observed(u) >= 0
    /\ \E u \in Upds : ~alone[u]
    /\ \E u, w \in Upds : delta[u] > 0 /\ delta[w] < 0

\* The two calls of the scenario: u posted 10, w posted -5, both IncrBy
\* succeeded, and every call has completed.
TenAndMinusFive(u, w) ==
    /\ AllDone
    /\ {x \in Upds : Applied(x)} = {u, w}
    /\ delta[u] = 10
    /\ delta[w] = -5

C3_FinalNotNegative == AllDone => Stored >= 0

\* C4 (as stated): the stored position is >= 0 in every reachable state.
C4_StoredNeverNegative == Stored >= 0

\* C5 (as stated): an updatePosition call during which no other call was
\* in flight, started on a stored value v >= 0 with delta d, answers
\* max(0, v+d), has written that value once to every client still
\* registered, and leaves max(0, v+d) in the store when it returns; and the
\* value any call broadcasts is the value it answers and is not negative.
C5_AloneUpdateClamps ==
    [][\A u \in Upds :
          (upc[u] = "locked" /\ upc'[u] = "done") =>
             /\ resp'[u] = Position(newPos[u])
             /\ newPos[u] >= 0
             /\ (alone[u] /\ before[u] >= 0) =>
                   LET p == Clamp(before[u] + delta[u]) IN
                   /\ resp'[u] = Position(p)
                   /\ \A c \in wsClients' : sentTo'[u][c] = 1
                   /\ Get(carPosition', keyExists') = p]_vars

\* A store operation of request u returned an error.
IncrFailed(u) == upc[u] = "done" /\ ~Applied(u) /\ resp[u] # Error(400)
StoreFailed(u) == setFailed[u] \/ IncrFailed(u)

\* C6 (as stated): a call one of whose store operations (IncrBy, or the
\* clamping Set) failed never enters broadcastPosition, has written to no
\* client, and once done has answered an error.
C6_StoreErrorAborts ==
    \A u \in Upds : StoreFailed(u) =>
        /\ upc[u] # "locked"
        /\ \A c \in Conns : sentTo[u][c] = 0
        /\ upc[u] = "done" => resp[u][1] = "error"

\* C7: in one broadcastPosition pass no connection is written twice, only
\* connections registered when the pass locked are written, and when the
\* range is exhausted every connection that was registered at the start and
\* whose write did not fail has been sent the message exactly once, however
\* many other writes failed and in whatever order the map was ranged.
C7_EachLiveSubscriberOnce ==
    \A u \in Upds :
        /\ \A c \in Conns : sentTo[u][c] <= 1
        /\ \A c \in Conns : sentTo[u][c] = 1 => c \in passStart[u]
        /\ PassOver(u) =>
              \A c \in passStart[u] \ failedIn[u] : sentTo[u][c] = 1

\* A finished pass over two connections: one write failed, one succeeded.
C7_Witness ==
    \E u \in Upds :
        /\ PassOver(u)
        /\ failedIn[u] # {}
        /\ \E c \in passStart[u] \ failedIn[u] : sentTo[u][c] = 1

\* C8: while a pass holds the mutex the registry is exactly the registry at
\* the start of the pass without the connections whose write failed so
\* far (so at the end of the pass the failed ones are gone and all others
\* are members as before); a connection whose write failed is closed and
\* not registered; and the updatePosition call whose pass had failed
\* writes still answers the clamped new position, not an error.
C8_FailedWritePruned ==
    \A u \in Upds :
        /\ upc[u] = "locked" => wsClients = passStart[u] \ failedIn[u]
        /\ \A c \in failedIn[u] : closed[c] /\ c \notin wsClients
        /\ (upc[u] = "done" /\ failedIn[u] # {})
              => resp[u] = Position(Clamp(Observed(u)))

\* A call returned after a pass in which one write failed and another
\* connection, still registered, was served.
C8_Witness ==
    \E u \in Upds :
        /\ Returned(u)
        /\ failedIn[u] # {}
        /\ \E c \in passStart[u] \ failedIn[u] : c \in wsClients

\* C9: no broadcastPosition pass is inside a write to a connection that
\* has been deleted from the registry (by handleWSRead's cleanup or by the
\* pruning of a pass).
C9_NoBroadcastAfterRemoval ==
    \A u \in Upds : cur[u] # NoConn => cur[u] \notin removed

\* A connection received a broadcast, was then removed by its read loop,
\* and a later pass is writing to another connection.
C9_Witness ==
    \E u, w \in Upds, c \in Conns :
        /\ u # w
        /\ sentTo[w][c] = 1
        /\ c \in removed
        /\ rpc[c] \in {"close", "done"}
        /\ upc[u] = "locked"
        /\ cur[u] # NoConn

\* C10 (as stated): getPosition answers 0 before any update and otherwise
\* the clamped value produced by the latest update whose IncrBy has taken
\* effect.
C10_GetReturnsLatestEffective ==
    (got # None /\ got[1] = "position") => got[2] = gotExpect

\* C11 (as stated): no step of an updatePosition call with delta 0 changes
\* the stored value, and the value the call broadcasts is the stored value
\* its IncrBy answered, in whatever state the call runs.
C11_ZeroDeltaIsNoOp ==
    [][\A u \in Upds :
          (upc'[u] # upc[u] /\ delta'[u] = 0) =>
             /\ Get(carPosition', keyExists') = Stored
             /\ upc'[u] = "locked" => newPos[u] = Observed(u)]_vars

\* C12: under fair scheduling a registered connection whose peer is gone
\* is eventually deleted from the registry and closed, with its read loop
\* finished; and a pass that locks after a connection was removed does not
\* range over it.
C12_ClosedPeerEventuallyRemoved ==
    /\ \A c \in Conns :
          (c \in wsClients /\ peerGone[c])
              ~> (c \notin wsClients /\ closed[c] /\ rpc[c] = "done")
    /\ [][\A u \in Upds :
             (upc[u] = "broadcast" /\ upc'[u] = "locked")
                 => passStart'[u] \cap removed = {}]_vars

\* The peer of a registered connection went away while a pass held the
\* mutex, the read loop cleaned up, and a later pass ranged the registry.
C12_Witness ==
    \E c \in Conns, u \in Upds :
        /\ peerGone[c]
        /\ rpc[c] = "done"
        /\ c \in removed
        /\ \A w \in Upds : c \notin failedIn[w]
        /\ upc[u] = "locked"
        /\ c \notin passStart[u]
        /\ \E w \in Upds : sentTo[w][c] = 1

\* sendCurrentPosition(c) has returned.
SnapReturned(c) == spc[c] \in {"sent", "getFailed", "writeFailed"}

\* C13 (as stated): once sendCurrentPosition has run for a registered
\* connection, exactly one snapshot carrying the position it read has been
\* sent to that connection.
C13_SnapshotAlwaysSent ==
    \A c \in Conns : SnapReturned(c) => snapGot[c] = <<snapVal[c]>>

\* C13 (amended): sendCurrentPosition of a registered connection eventually
\* returns; it reads the store once (0 for an absent key) and, if that read
\* and its write both succeed, the connection has been sent exactly one
\* snapshot, carrying the value read; if either fails, none. No connection
\* is sent the snapshot of another, and no step of sendCurrentPosition
\* changes the store or the registry.
C13_SnapshotOnceOrNone ==
    /\ \A c \in Conns : (spc[c] = "get") ~> SnapReturned(c)
    /\ [](\A c \in Conns :
            snapGot[c] = IF spc[c] = "sent" THEN <<snapVal[c]>> ELSE <<>>)
    /\ [][\A c \in Conns :
             spc'[c] # spc[c] /\ spc[c] # "none" =>
                /\ carPosition' = carPosition
                /\ keyExists' = keyExists
                /\ wsClients' = wsClients
                /\ spc'[c] = "write" => snapVal'[c] = Stored]_vars

\* One connection got its snapshot of a stored value other than 0, the
\* Get of the other failed, and both are still registered.
C13_Witness ==
    \E c, d \in Conns :
        /\ spc[c] = "sent"
        /\ snapGot[c] = <<snapVal[c]>>
        /\ snapVal[c] # 0
        /\ spc[d] = "getFailed"
        /\ {c, d} \subseteq wsClients

\* The read loop of c was started and its cleanup has not yet deleted c.
ReadLoopLive(c) == rpc[c] \in {"reading", "cleanup", "locked"}
\* A broadcastPosition pass deleted c after a failed write.
PrunedByPass(c) == \E u \in Upds : c \in failedIn[u]

C15_LockFreeDuringWrite ==
    (\E u \in Upds : cur[u] # NoConn) => CanLock(wsMutex)

\* The goroutines between Lock and Unlock of wsMutex.
InCritical ==
    {UpdHolder(u) : u \in {w \in Upds : upc[w] = "locked"}}
        \cup {WsHolder(c) : c \in {d \in Conns : wpc[d] = "locked"}}
        \cup {RdHolder(c) : c \in {d \in Conns : rpc[d] = "locked"}}

\* C16: at most one goroutine is between Lock and Unlock of wsMutex, and
\* it is the holder; a pass ranges or writes only while it holds the mutex;
\* and every step that inserts into or deletes from wsClients is taken by
\* the goroutine holding the mutex.
C16_RegistryUnderMutex ==
    /\ [](/\ Cardinality(InCritical) <= 1
          /\ InCritical = IF wsMutex = Free THEN {} ELSE {wsMutex}
          /\ \A u \in Upds :
                (cur[u] # NoConn \/ todo[u] # {}) => wsMutex = UpdHolder(u))
    /\ [][wsClients' # wsClients =>
            /\ wsMutex # Free
            /\ wsMutex \in InCritical
            /\ InCritical' \subseteq InCritical]_vars

\* A pass is inside a write while a registration and a cleanup wait for
\* the mutex.
C16_Witness ==
    \E u \in Upds, c, d \in Conns :
        /\ cur[u] # NoConn
        /\ wpc[c] = "upgraded"
        /\ rpc[d] = "cleanup"

\* C17 (as stated): at most one goroutine is inside WriteMessage on a given
\* connection at any time, be it a pass of broadcastPosition or the
\* sendCurrentPosition of that connection.
C17_SingleWriter ==
    \A c \in Conns : Cardinality(Writers(c)) <= 1

\* Every started update has returned, every started sendCurrentPosition
\* has returned, and no write and no store operation has failed.
Quiescent ==
    /\ \A u \in Upds : upc[u] \in {"start", "done"}
    /\ \A u \in Upds : failedIn[u] = {} /\ ~setFailed[u]
    /\ \A c \in Conns : spc[c] \in {"none", "sent"}

\* C18 (as stated): when the system is quiescent, the last message sent to
\* each registered client carries the stored position.
C18_QuiescentClientsCurrent ==
    Quiescent => \A c \in wsClients : lastMsg[c] = Some(Stored)

\* C19 (as stated): no write, by broadcastPosition or sendCurrentPosition,
\* is started on a connection that has been closed by the server or
\* deleted from the registry.
C19_NoWriteAfterCloseOrRemoval ==
    [][\A c \in Conns :
          Writers(c)' \ Writers(c) # {}
              => ~closed[c] /\ c \notin removed]_vars

\* No update is between its IncrBy and its return, no registration is
\* waiting for or holding wsMutex, and no read-loop cleanup is pending.
NoneInFlight ==
    /\ \A u \in Upds : ~InFlight(u)
    /\ \A c \in Conns : wpc[c] \notin {"upgraded", "locked"}
    /\ \A c \in Conns : rpc[c] \notin {"cleanup", "locked", "close"}

\* C20: under fair scheduling every update that has done its IncrBy
\* returns, every registration that waits for wsMutex registers, and every
\* read loop that has ended finishes its cleanup. A goroutine only moves
\* forward, so this is: again and again nothing is in flight.
C20_NoDeadlockOnMutex == []<>NoneInFlight

\* A returned update whose pass made a registration and a cleanup wait,
\* both of which then went through.
C20_Witness ==
    \E u \in Upds, c, d \in Conns :
        /\ c # d
        /\ Returned(u)
        /\ sentTo[u][d] = 1 /\ c \notin passStart[u]
        /\ wpc[c] = "done"
        /\ rpc[d] = "done"

====
